---------------------------- MODULE Spec2Model ----------------------------
(***************************************************************************)
(* Model of mongodbforms/fieldgenerator.py: the two form-field generators   *)
(* MongoFormFieldGenerator (strict) and MongoDefaultFormFieldGenerator      *)
(* (lenient), which map a mongoengine field descriptor onto a Django form   *)
(* field.                                                                   *)
(*                                                                         *)
(* Python values are modelled as follows.                                   *)
(*   - scalars (None, booleans, numbers, strings, class objects) are        *)
(*     strings: "None", "True", "False", "0", "5", "abc", ...               *)
(*   - a choices list is a sequence of <<value, label>> pairs; the empty    *)
(*     sequence stands for both None and [] (both are falsy, and the code   *)
(*     reads the list only when it is truthy)                               *)
(*   - an object is a record of its attribute values plus the set `has' of  *)
(*     the attribute names it exposes; reading an attribute outside `has'   *)
(*     raises AttributeError                                                *)
(*   - the element descriptor of a list/map descriptor (field.field) is     *)
(*     <<>> for None and <<d>> for the descriptor d                         *)
(*   - the outcome of a call is a record: a constructed form field          *)
(*     (kind "field": its class, its positional argument, its keyword       *)
(*     arguments), the value None (kind "none") or a raised exception       *)
(*     (kind "raise"), together with the state in which the call leaves     *)
(*     the objects it was handed (the descriptor, the shared blank-choice   *)
(*     list).                                                               *)
(***************************************************************************)
EXTENDS Naturals, Sequences, FiniteSets, TLC

VARIABLES
    BLANK_CHOICE_DASH,  \* the module-level list object, line 24
    field_map,          \* the class attribute MongoFormFieldGenerator.field_map
    field,              \* the descriptor object the caller holds and passes in
    kwargs,             \* the overrides the caller passes with it
    last,               \* the latest call: generator variant and outcome
    first,              \* the first call: generator variant and outcome
    given,              \* the descriptor as the caller built it
    ncalls              \* number of generate calls made so far

vars ==
    <<BLANK_CHOICE_DASH, field_map, field, kwargs, last, first, given, ncalls>>

(***************************************************************************)
(* Bounds of the model.                                                     *)
(***************************************************************************)
MaxBases == 2     \* longest ancestor list (__bases__) of a descriptor class
MaxChoices == 2   \* longest choices list of a descriptor
MaxDepth == 2     \* deepest nesting of list/map descriptors
MaxCalls == 2     \* generate calls made on one descriptor

(***************************************************************************)
(* Python values.                                                           *)
(***************************************************************************)
None == "None"

\* bool(v) for a scalar
Truthy(v) == v \notin {"None", "False", "0", ""}

Strict == "MongoFormFieldGenerator"
Lenient == "MongoDefaultFormFieldGenerator"
Variants == {Strict, Lenient}

\* the initial contents of the list of line 24
BlankChoice == << <<"", "---------">> >>

\* the initial contents of the dict of lines 31-33
FieldMap == [n \in {"sortedlistfield"} |-> "generate_listfield"]

\* the generate_<kind> methods the generator classes define
Methods ==
    {"generate_stringfield", "generate_emailfield", "generate_urlfield",
     "generate_intfield", "generate_floatfield", "generate_decimalfield",
     "generate_booleanfield", "generate_datetimefield",
     "generate_referencefield", "generate_listfield", "generate_mapfield",
     "generate_filefield", "generate_imagefield"}

\* class names of descriptors that have a handler of their own name
HandledKinds ==
    {"StringField", "EmailField", "URLField", "IntField", "FloatField",
     "DecimalField", "BooleanField", "DateTimeField", "ReferenceField",
     "ListField", "MapField", "FileField", "ImageField"}

\* class names of descriptors without a handler of their own name
OtherKinds ==
    {"SortedListField", "EmbeddedDocumentField", "ObjectIdField",
     "RankedListField", "SlugField"}

KindNames == HandledKinds \cup OtherKinds

\* class names that occur as ancestors
BaseNames ==
    {"BaseField", "StringField", "ListField", "SortedListField", "Mixin",
     "ReferenceField"}

\* str.lower() on the class names of the model
lower(n) ==
    CASE n = "StringField" -> "stringfield"
      [] n = "EmailField" -> "emailfield"
      [] n = "URLField" -> "urlfield"
      [] n = "IntField" -> "intfield"
      [] n = "FloatField" -> "floatfield"
      [] n = "DecimalField" -> "decimalfield"
      [] n = "BooleanField" -> "booleanfield"
      [] n = "DateTimeField" -> "datetimefield"
      [] n = "ReferenceField" -> "referencefield"
      [] n = "ListField" -> "listfield"
      [] n = "MapField" -> "mapfield"
      [] n = "FileField" -> "filefield"
      [] n = "ImageField" -> "imagefield"
      [] n = "SortedListField" -> "sortedlistfield"
      [] n = "EmbeddedDocumentField" -> "embeddeddocumentfield"
      [] n = "ObjectIdField" -> "objectidfield"
      [] n = "RankedListField" -> "rankedlistfield"
      [] n = "SlugField" -> "slugfield"
      [] n = "BaseField" -> "basefield"
      [] n = "Mixin" -> "mixin"
      [] n = "NoneType" -> "nonetype"
      [] n = "object" -> "object"

\* hasattr(self, 'generate_%s' % name)
HasHandler(name) == ("generate_" \o name) \in Methods

\* isinstance(d, C), decided on the class and its direct ancestors
IsInstance(d, C) ==
    \/ d.cls = C
    \/ \E i \in 1..Len(d.bases) : d.bases[i] = C

(***************************************************************************)
(* Descriptors.                                                             *)
(***************************************************************************)
AttrNames ==
    {"required", "default", "choices", "regex", "max_length", "min_length",
     "min_value", "max_value", "verbose_name", "name", "help_text",
     "document_type", "field"}

\* a descriptor of class c with ancestors b whose constraints are all unset
Plain(c, b) ==
    [cls |-> c, bases |-> b, has |-> AttrNames,
     required |-> "True", default |-> None, choices |-> <<>>,
     regex |-> None, max_length |-> None, min_length |-> None,
     min_value |-> None, max_value |-> None,
     verbose_name |-> None, name |-> "pubDate", help_text |-> None,
     document_type |-> "Doc", field |-> <<>>]

\* the object None handed to generate in place of a descriptor
NoneObject == [Plain("NoneType", <<"object">>) EXCEPT !.has = {}]

(***************************************************************************)
(* Outcomes of a call.                                                      *)
(***************************************************************************)
NoArgs == [k \in {} |-> ""]

\* form_class(pos, **args) was constructed and returned
Form(cls, pos, args, fld, blank) ==
    [kind |-> "field", cls |-> cls, pos |-> pos, args |-> args, exc |-> "",
     field |-> fld, blank |-> blank]

\* the call returned None
ReturnNone(fld, blank) ==
    [kind |-> "none", cls |-> "NoneType", pos |-> "", args |-> NoArgs,
     exc |-> "", field |-> fld, blank |-> blank]

\* the call raised exc
Raise(exc, fld, blank) ==
    [kind |-> "raise", cls |-> "", pos |-> "", args |-> NoArgs, exc |-> exc,
     field |-> fld, blank |-> blank]

\* no call was made yet
NoCall ==
    [kind |-> "nocall", cls |-> "", pos |-> "", args |-> NoArgs, exc |-> "",
     field |-> NoneObject, blank |-> <<>>]

\* update with the two dicts exchanged: a computed default wins over the
\* caller's value for the same key
update_defaults_win(defaults, kw) ==
    [k \in (DOMAIN defaults) \cup (DOMAIN kw) |->
        IF k \in DOMAIN defaults THEN defaults[k] ELSE kw[k]]

\* defaults.update(kwargs): the dict defaults after the call
update(defaults, kw) ==
    [k \in (DOMAIN defaults) \cup (DOMAIN kw) |->
        IF k \in DOMAIN kw THEN kw[k] ELSE defaults[k]]

\* a dict literal entry that is present only under a condition
Entry(cond, k, v) == IF cond THEN k :> v ELSE NoArgs

(***************************************************************************)
(* Helpers of MongoFormFieldGenerator.                                      *)
(***************************************************************************)
\* get_field_choices with the operands of + exchanged: the blank pair
\* follows the descriptor's choices
get_field_choices_blank_last(fld, include_blank, blank_choice) ==
    LET first_choice ==
            IF include_blank /\ Len(blank_choice) > 0
            THEN blank_choice ELSE <<>>
    IN  [ret |-> fld.choices \o first_choice,
         blank_choice |-> blank_choice,
         choices |-> fld.choices]

\* get_field_choices extending the blank_choice list in place (+= instead
\* of +): the shared default list keeps the descriptor's choices
get_field_choices_in_place(fld, include_blank, blank_choice) ==
    LET first_choice ==
            IF include_blank /\ Len(blank_choice) > 0
            THEN blank_choice ELSE <<>>
    IN  [ret |-> first_choice \o fld.choices,
         blank_choice |-> IF include_blank /\ Len(blank_choice) > 0
                          THEN first_choice \o fld.choices
                          ELSE blank_choice,
         choices |-> fld.choices]

\* get_field_choices: the returned list, and the blank_choice list object
\* and the descriptor's choices list object as the call leaves them
get_field_choices(fld, include_blank, blank_choice) ==
    LET first_choice ==
            IF include_blank /\ Len(blank_choice) > 0
            THEN blank_choice ELSE <<>>
    IN  [ret |-> first_choice \o fld.choices,
         blank_choice |-> blank_choice,
         choices |-> fld.choices]

\* capfirst(get_verbose_name(name)) on the attribute names of the model
capfirst_verbose_name(n) ==
    CASE n = "pubDate" -> "Pub date"
      [] n = "" -> ""

\* str.capitalize() on the help texts of the model
capitalize(s) ==
    CASE s = "some Help" -> "Some help"

\* the attributes get_field_label reads
LabelReads(fld) ==
    {"verbose_name"} \cup
    (IF "verbose_name" \in fld.has /\ Truthy(fld.verbose_name)
     THEN {} ELSE {"name"})

get_field_label(fld) ==
    IF Truthy(fld.verbose_name) THEN fld.verbose_name
    ELSE IF fld.name # None THEN capfirst_verbose_name(fld.name)
    ELSE ""

get_field_help_text(fld) ==
    IF Truthy(fld.help_text) THEN capitalize(fld.help_text) ELSE None

\* the manager document_type.objects of a document class
objects(document_type) == document_type \o ".objects"

\* the entries label and help_text every handler but one computes
LabelHelp(fld) ==
    ("label" :> get_field_label(fld)) @@
    ("help_text" :> get_field_help_text(fld))

(***************************************************************************)
(* The per-kind handlers that do not recurse.  Each reads the attributes    *)
(* its code reads (AttributeError when the descriptor lacks one), builds    *)
(* defaults, applies the overrides and constructs the form field.           *)
(***************************************************************************)
\* the attributes generate_stringfield reads, lines 89-108
StringReads(fld) ==
    LabelReads(fld) \cup {"default", "required", "help_text", "max_length",
                          "regex"} \cup
    (IF "max_length" \in fld.has
        /\ (Truthy(fld.max_length) \/ fld.max_length = None)
     THEN {"choices"} ELSE {}) \cup
    (IF "regex" \in fld.has /\ ~Truthy(fld.regex) THEN {"choices"} ELSE {})

generate_stringfield(self, fld, kw, blank) ==
    IF ~(StringReads(fld) \subseteq fld.has)
    THEN Raise("AttributeError", fld, blank)
    ELSE
    LET hasChoices == Len(fld.choices) > 0
        typed == ~Truthy(fld.regex) /\ hasChoices
        gfc == get_field_choices(fld, TRUE, blank)
        form_class == IF typed THEN "TypedChoiceField" ELSE "MongoCharField"
        defaults ==
            LabelHelp(fld) @@
            ("initial" :> fld.default) @@
            ("required" :> fld.required) @@
            Entry(Truthy(fld.max_length) /\ ~hasChoices,
                  "max_length", fld.max_length) @@
            Entry(fld.max_length = None /\ ~hasChoices,
                  "widget", "Textarea") @@
            Entry(Truthy(fld.regex), "regex", fld.regex) @@
            Entry(typed, "choices", gfc.ret) @@
            Entry(typed, "coerce", "string_field") @@
            Entry(typed /\ ~Truthy(fld.required), "empty_value", None)
    IN  Form(form_class, "", update(defaults, kw),
             IF typed THEN [fld EXCEPT !.choices = gfc.choices] ELSE fld,
             IF typed THEN gfc.blank_choice ELSE blank)

generate_emailfield(self, fld, kw, blank) ==
    IF ~(LabelReads(fld) \cup {"required", "min_length", "max_length",
                               "default", "help_text"} \subseteq fld.has)
    THEN Raise("AttributeError", fld, blank)
    ELSE
    LET defaults ==
            LabelHelp(fld) @@
            ("required" :> fld.required) @@
            ("min_length" :> fld.min_length) @@
            ("max_length" :> fld.max_length) @@
            ("initial" :> fld.default)
    IN  Form("EmailField", "", update(defaults, kw), fld, blank)

generate_urlfield(self, fld, kw, blank) ==
    IF ~(LabelReads(fld) \cup {"required", "min_length", "max_length",
                               "default", "help_text"} \subseteq fld.has)
    THEN Raise("AttributeError", fld, blank)
    ELSE
    LET defaults ==
            LabelHelp(fld) @@
            ("required" :> fld.required) @@
            ("min_length" :> fld.min_length) @@
            ("max_length" :> fld.max_length) @@
            ("initial" :> fld.default)
    IN  Form("URLField", "", update(defaults, kw), fld, blank)

\* the attributes generate_intfield reads, lines 140-160
IntReads(fld) ==
    LabelReads(fld) \cup {"choices", "required", "default", "help_text"} \cup
    (IF "choices" \in fld.has /\ Len(fld.choices) = 0
     THEN {"min_value", "max_value"} ELSE {})

generate_intfield(self, fld, kw, blank) ==
    IF ~(IntReads(fld) \subseteq fld.has)
    THEN Raise("AttributeError", fld, blank)
    ELSE IF Len(fld.choices) > 0
    THEN
        LET gfc == get_field_choices(fld, TRUE, blank)
            defaults ==
                LabelHelp(fld) @@
                ("coerce" :> "integer_field") @@
                ("empty_value" :> None) @@
                ("required" :> fld.required) @@
                ("initial" :> fld.default) @@
                ("choices" :> gfc.ret)
        IN  Form("TypedChoiceField", "", update(defaults, kw),
                 [fld EXCEPT !.choices = gfc.choices], gfc.blank_choice)
    ELSE
        LET defaults ==
                LabelHelp(fld) @@
                ("required" :> fld.required) @@
                ("min_value" :> fld.min_value) @@
                ("max_value" :> fld.max_value) @@
                ("initial" :> fld.default)
        IN  Form("IntegerField", "", update(defaults, kw), fld, blank)

generate_floatfield(self, fld, kw, blank) ==
    IF ~(LabelReads(fld) \cup {"default", "required", "min_value",
                               "max_value", "help_text"} \subseteq fld.has)
    THEN Raise("AttributeError", fld, blank)
    ELSE
    LET defaults ==
            LabelHelp(fld) @@
            ("initial" :> fld.default) @@
            ("required" :> fld.required) @@
            ("min_value" :> fld.min_value) @@
            ("max_value" :> fld.max_value)
    IN  Form("FloatField", "", update(defaults, kw), fld, blank)

generate_decimalfield(self, fld, kw, blank) ==
    IF ~(LabelReads(fld) \cup {"default", "required", "min_value",
                               "max_value", "help_text"} \subseteq fld.has)
    THEN Raise("AttributeError", fld, blank)
    ELSE
    LET defaults ==
            LabelHelp(fld) @@
            ("initial" :> fld.default) @@
            ("required" :> fld.required) @@
            ("min_value" :> fld.min_value) @@
            ("max_value" :> fld.max_value)
    IN  Form("DecimalField", "", update(defaults, kw), fld, blank)

generate_booleanfield(self, fld, kw, blank) ==
    IF ~(LabelReads(fld) \cup {"choices", "required", "default",
                               "help_text"} \subseteq fld.has)
    THEN Raise("AttributeError", fld, blank)
    ELSE IF Len(fld.choices) > 0
    THEN
        LET gfc == get_field_choices(fld, TRUE, blank)
            defaults ==
                LabelHelp(fld) @@
                ("coerce" :> "boolean_field") @@
                ("empty_value" :> None) @@
                ("required" :> fld.required) @@
                ("initial" :> fld.default) @@
                ("choices" :> gfc.ret)
        IN  Form("TypedChoiceField", "", update(defaults, kw),
                 [fld EXCEPT !.choices = gfc.choices], gfc.blank_choice)
    ELSE
        LET defaults ==
                LabelHelp(fld) @@
                ("required" :> fld.required) @@
                ("initial" :> fld.default)
        IN  Form("BooleanField", "", update(defaults, kw), fld, blank)

generate_datetimefield(self, fld, kw, blank) ==
    IF ~(LabelReads(fld) \cup {"required", "default"} \subseteq fld.has)
    THEN Raise("AttributeError", fld, blank)
    ELSE
    LET defaults ==
            ("required" :> fld.required) @@
            ("initial" :> fld.default) @@
            ("label" :> get_field_label(fld))
    IN  Form("DateTimeField", "", update(defaults, kw), fld, blank)

generate_referencefield(self, fld, kw, blank) ==
    IF ~(LabelReads(fld) \cup {"help_text", "required", "document_type"}
            \subseteq fld.has)
    THEN Raise("AttributeError", fld, blank)
    ELSE
    LET defaults ==
            LabelHelp(fld) @@
            ("required" :> fld.required)
    IN  Form("ReferenceField", objects(fld.document_type),
             update(defaults, kw), fld, blank)

generate_filefield(self, fld, kw, blank) ==
    IF ~(LabelReads(fld) \cup {"required", "default", "help_text"}
            \subseteq fld.has)
    THEN Raise("AttributeError", fld, blank)
    ELSE
    LET defaults ==
            LabelHelp(fld) @@
            ("required" :> fld.required) @@
            ("initial" :> fld.default)
    IN  Form("FileField", "", update(defaults, kw), fld, blank)

generate_imagefield(self, fld, kw, blank) ==
    IF ~(LabelReads(fld) \cup {"required", "default", "help_text"}
            \subseteq fld.has)
    THEN Raise("AttributeError", fld, blank)
    ELSE
    LET defaults ==
            LabelHelp(fld) @@
            ("required" :> fld.required) @@
            ("initial" :> fld.default)
    IN  Form("ImageField", "", update(defaults, kw), fld, blank)

(***************************************************************************)
(* The handlers that recurse into generate, and generate itself.            *)
(***************************************************************************)
RECURSIVE generate(_, _, _, _)

generate_listfield(self, fld, kw, blank) ==
    IF "field" \notin fld.has \/ fld.field = <<>>
    THEN Raise("AttributeError", fld, blank)
    ELSE
    LET elem == fld.field[1]
        reads == LabelReads(fld) \cup {"help_text", "required"}
        defaults == LabelHelp(fld) @@ ("required" :> fld.required)
    IN  IF "choices" \notin elem.has
        THEN Raise("AttributeError", fld, blank)
        ELSE IF Len(elem.choices) > 0
        THEN IF ~(reads \subseteq fld.has)
             THEN Raise("AttributeError", fld, blank)
             ELSE Form("MultipleChoiceField", "",
                       update(("choices" :> elem.choices) @@ defaults @@
                              ("widget" :> "CheckboxSelectMultiple"), kw),
                       fld, blank)
        ELSE IF IsInstance(elem, "ReferenceField")
        THEN IF ~(reads \subseteq fld.has) \/ "document_type" \notin elem.has
             THEN Raise("AttributeError", fld, blank)
             ELSE Form("DocumentMultipleChoiceField",
                       objects(elem.document_type),
                       update(defaults, kw), fld, blank)
        ELSE IF ~IsInstance(elem, "EmbeddedDocumentField")
        THEN IF ~(reads \subseteq fld.has)
             THEN Raise("AttributeError", fld, blank)
             ELSE
             LET form_field == generate(self, elem, NoArgs, blank)
                 after == [fld EXCEPT !.field = <<form_field.field>>]
             IN  IF form_field.kind = "raise"
                 THEN Raise(form_field.exc, after, form_field.blank)
                 ELSE Form("ListField", form_field.cls,
                           update(defaults, kw), after, form_field.blank)
        ELSE ReturnNone(fld, blank)

generate_mapfield(self, fld, kw, blank) ==
    IF ~(LabelReads(fld) \cup {"help_text", "required", "field"}
            \subseteq fld.has)
    THEN Raise("AttributeError", fld, blank)
    ELSE
    LET defaults == LabelHelp(fld) @@ ("required" :> fld.required)
        elem == IF fld.field = <<>> THEN NoneObject ELSE fld.field[1]
        form_field == generate(self, elem, NoArgs, blank)
        after == IF fld.field = <<>> THEN fld
                 ELSE [fld EXCEPT !.field = <<form_field.field>>]
    IN  IF form_field.kind = "raise"
        THEN Raise(form_field.exc, after, form_field.blank)
        ELSE Form("MapField", form_field.cls,
                  update(defaults, kw), after, form_field.blank)

\* getattr(self, method)(field, **kwargs)
call_method(method, self, fld, kw, blank) ==
    CASE method = "generate_stringfield" ->
            generate_stringfield(self, fld, kw, blank)
      [] method = "generate_emailfield" ->
            generate_emailfield(self, fld, kw, blank)
      [] method = "generate_urlfield" ->
            generate_urlfield(self, fld, kw, blank)
      [] method = "generate_intfield" ->
            generate_intfield(self, fld, kw, blank)
      [] method = "generate_floatfield" ->
            generate_floatfield(self, fld, kw, blank)
      [] method = "generate_decimalfield" ->
            generate_decimalfield(self, fld, kw, blank)
      [] method = "generate_booleanfield" ->
            generate_booleanfield(self, fld, kw, blank)
      [] method = "generate_datetimefield" ->
            generate_datetimefield(self, fld, kw, blank)
      [] method = "generate_referencefield" ->
            generate_referencefield(self, fld, kw, blank)
      [] method = "generate_listfield" ->
            generate_listfield(self, fld, kw, blank)
      [] method = "generate_mapfield" ->
            generate_mapfield(self, fld, kw, blank)
      [] method = "generate_filefield" ->
            generate_filefield(self, fld, kw, blank)
      [] method = "generate_imagefield" ->
            generate_imagefield(self, fld, kw, blank)

\* the body of the loop of lines 44-53 for the i-th ancestor.  Every path
\* through the body returns or raises, so the loop never reaches i + 1;
\* it falls off its end (generate returns None) only when there is no
\* i-th ancestor.
bases_loop(self, fld, kw, blank, i) ==
    IF i > Len(fld.bases)
    THEN ReturnNone(fld, blank)
    ELSE
    LET cls_name == lower(fld.bases[i])
        tried == IF HasHandler(cls_name)
                 THEN call_method("generate_" \o cls_name, self, fld, kw, blank)
                 ELSE Raise("AttributeError", fld, blank)
    IN  IF ~(tried.kind = "raise" /\ tried.exc = "AttributeError")
        THEN tried
        ELSE IF cls_name \in DOMAIN field_map
        THEN call_method(field_map[cls_name], self, tried.field, kw,
                         tried.blank)
        ELSE Raise("NotImplementedError", tried.field, tried.blank)

\* MongoFormFieldGenerator.generate
MongoFormFieldGenerator_generate(self, fld, kw, blank) ==
    LET field_name == lower(fld.cls)
    IN  IF HasHandler(field_name)
        THEN call_method("generate_" \o field_name, self, fld, kw, blank)
        ELSE bases_loop(self, fld, kw, blank, 1)

\* the except branch without its hasattr tests: min_length, max_length and
\* initial are always passed
charfield_fallback_all(fld, kw, blank) ==
    IF "required" \notin fld.has
    THEN Raise("AttributeError", fld, blank)
    ELSE
    LET defaults ==
            ("required" :> fld.required) @@
            ("min_length" :> fld.min_length) @@
            ("max_length" :> fld.max_length) @@
            ("initial" :> fld.default)
    IN  Form("CharField", "", update(defaults, kw), fld, blank)

\* the except branch of MongoDefaultFormFieldGenerator.generate
charfield_fallback(fld, kw, blank) ==
    IF "required" \notin fld.has
    THEN Raise("AttributeError", fld, blank)
    ELSE
    LET defaults ==
            ("required" :> fld.required) @@
            Entry("min_length" \in fld.has, "min_length", fld.min_length) @@
            Entry("max_length" \in fld.has, "max_length", fld.max_length) @@
            Entry("default" \in fld.has, "initial", fld.default)
    IN  Form("CharField", "", update(defaults, kw), fld, blank)

\* MongoDefaultFormFieldGenerator.generate
MongoDefaultFormFieldGenerator_generate(self, fld, kw, blank) ==
    LET out == MongoFormFieldGenerator_generate(self, fld, kw, blank)
    IN  IF out.kind = "raise" /\ out.exc = "NotImplementedError"
        THEN charfield_fallback(out.field, kw, out.blank)
        ELSE out

\* self.generate(field, **kwargs), dispatched on the class of self
generate(self, fld, kw, blank) ==
    IF self = Lenient
    THEN MongoDefaultFormFieldGenerator_generate(self, fld, kw, blank)
    ELSE MongoFormFieldGenerator_generate(self, fld, kw, blank)

(***************************************************************************)
(* The inputs: descriptors and overrides.                                   *)
(***************************************************************************)
\* the ancestor lists: every class but object has at least one ancestor
BasesSeqs == UNION {[1..n -> BaseNames] : n \in 1..MaxBases}

ChoicePairs == {<<"a", "A">>, <<"b", "B">>, <<"", "---------">>}

ChoiceLists == UNION {[1..n -> ChoicePairs] : n \in 0..MaxChoices}

StringElement == Plain("StringField", <<"BaseField">>)

\* every kind under every ancestor list, without and with choices
DispatchDescriptors ==
    {[Plain(c, b) EXCEPT !.field = <<StringElement>>, !.choices = ch] :
        c \in KindNames, b \in BasesSeqs,
        ch \in {<<>>, << <<"a", "A">> >>}}

\* string, integer and boolean descriptors under every combination of
\* choices, regex, max length, required and default
ConstraintDescriptors ==
    {[Plain(c, <<"BaseField">>) EXCEPT
            !.choices = ch, !.regex = re, !.max_length = ml,
            !.required = rq, !.default = df] :
        c \in {"StringField", "IntField", "BooleanField"},
        ch \in ChoiceLists, re \in {None, "^a"}, ml \in {None, "0", "5"},
        rq \in {"True", "False"}, df \in {None, "d"}}

\* every handled kind under every combination of verbose name, attribute
\* name and help text
LabelDescriptors ==
    {[Plain(c, <<"BaseField">>) EXCEPT
            !.field = <<StringElement>>, !.verbose_name = vn, !.name = nm,
            !.help_text = ht, !.min_value = "1", !.max_length = "5"] :
        c \in HandledKinds, vn \in {None, "Title"}, nm \in {None, "pubDate"},
        ht \in {None, "some Help"}}

\* descriptors that lack some of the attributes the generators read
ExposureDescriptors ==
    {[Plain(c, b) EXCEPT
            !.has = AttrNames \ m, !.field = <<StringElement>>,
            !.min_length = "1", !.max_length = "5", !.default = "d"] :
        c \in {"ObjectIdField", "SlugField", "EmailField", "StringField",
               "SortedListField", "ListField", "MapField", "ReferenceField"},
        b \in {<<"BaseField">>, <<"StringField">>, <<"ListField">>,
               <<"ReferenceField">>},
        m \in SUBSET {"min_length", "max_length", "default", "field",
                      "document_type"}}

\* the element descriptors of list and map descriptors
Elements ==
    {StringElement,
     [StringElement EXCEPT !.choices = << <<"a", "A">>, <<"b", "B">> >>],
     Plain("IntField", <<"BaseField">>),
     [Plain("ReferenceField", <<"BaseField">>) EXCEPT !.document_type = "Author"],
     Plain("SlugField", <<"ReferenceField">>),
     Plain("EmbeddedDocumentField", <<"BaseField">>),
     [Plain("EmbeddedDocumentField", <<"BaseField">>) EXCEPT
            !.choices = << <<"a", "A">> >>],
     Plain("ObjectIdField", <<"BaseField">>),
     Plain("SlugField", <<"Mixin", "StringField">>),
     [Plain("ObjectIdField", <<"BaseField">>) EXCEPT
            !.has = AttrNames \ {"choices"}]}

ContainerKinds ==
    {<<"ListField", <<"BaseField">> >>, <<"MapField", <<"BaseField">> >>,
     <<"SortedListField", <<"ListField">> >>,
     <<"RankedListField", <<"SortedListField">> >>}

\* the list and map descriptors of nesting depth at most d
RECURSIVE Nested(_)
Nested(d) ==
    IF d = 0 THEN Elements
    ELSE LET inner == Nested(d - 1)
         IN  inner \cup
             {[Plain(k[1], k[2]) EXCEPT !.field = <<e>>] :
                 k \in ContainerKinds, e \in inner} \cup
             {Plain(k[1], k[2]) : k \in ContainerKinds}

Descriptors ==
    DispatchDescriptors \cup ConstraintDescriptors \cup LabelDescriptors
        \cup ExposureDescriptors \cup Nested(MaxDepth)

\* the overrides a caller passes
Overrides ==
    {NoArgs,
     "required" :> "False",
     "label" :> "Custom",
     ("initial" :> "x") @@ ("max_length" :> "9"),
     "choices" :> << <<"z", "Z">> >>,
     ("widget" :> "Select") @@ ("help_text" :> None),
     ("empty_value" :> "") @@ ("min_length" :> "2")}

\* the descriptors generate is called on with overrides
OverrideDescriptors ==
    LabelDescriptors \cup Nested(1) \cup
    {d \in ConstraintDescriptors : d.max_length # "0" /\ d.default = None}
        \cup
    {d \in ExposureDescriptors : d.bases = <<"BaseField">>}

Inputs ==
    (Descriptors \X {NoArgs}) \cup (OverrideDescriptors \X Overrides)

(***************************************************************************)
(* The state machine: a caller builds a descriptor and overrides, then      *)
(* calls generate on either generator, repeatedly.                          *)
(***************************************************************************)
Init ==
    /\ BLANK_CHOICE_DASH = BlankChoice
    /\ field_map = FieldMap
    /\ \E in \in Inputs : field = in[1] /\ kwargs = in[2]
    /\ given = field
    /\ last = [self |-> "", out |-> NoCall]
    /\ first = [self |-> "", out |-> NoCall]
    /\ ncalls = 0

\* a caller runs MongoFormFieldGenerator().generate(field, **kwargs)
StrictGenerate ==
    /\ ncalls < MaxCalls
    /\ LET out == generate(Strict, field, kwargs, BLANK_CHOICE_DASH)
       IN  /\ BLANK_CHOICE_DASH' = out.blank
           /\ field' = out.field
           /\ last' = [self |-> Strict, out |-> out]
           /\ first' = IF ncalls = 0 THEN [self |-> Strict, out |-> out]
                       ELSE first
    /\ ncalls' = ncalls + 1
    /\ UNCHANGED <<field_map, kwargs, given>>

\* a caller runs MongoDefaultFormFieldGenerator().generate(field, **kwargs)
LenientGenerate ==
    /\ ncalls < MaxCalls
    /\ LET out == generate(Lenient, field, kwargs, BLANK_CHOICE_DASH)
       IN  /\ BLANK_CHOICE_DASH' = out.blank
           /\ field' = out.field
           /\ last' = [self |-> Lenient, out |-> out]
           /\ first' = IF ncalls = 0 THEN [self |-> Lenient, out |-> out]
                       ELSE first
    /\ ncalls' = ncalls + 1
    /\ UNCHANGED <<field_map, kwargs, given>>

Next == StrictGenerate \/ LenientGenerate

Spec == Init /\ [][Next]_vars

(***************************************************************************)
(* Vocabulary of the properties.                                            *)
(***************************************************************************)
\* the descriptor and every descriptor nested in it expose every attribute,
\* and every list/map descriptor in it has an element descriptor
RECURSIVE Complete(_)
Complete(d) ==
    /\ d.has = AttrNames
    /\ d.cls \in {"ListField", "MapField", "SortedListField",
                  "RankedListField"} => d.field # <<>>
    /\ d.field # <<>> => Complete(d.field[1])

\* a handler named after the descriptor's own lower-cased kind name exists
OwnHandler(d) == ("generate_" \o lower(d.cls)) \in Methods

\* the i-th ancestor resolves: a handler is named after it, or the alias
\* table names one for it
AncestorResolves(d, i) ==
    \/ ("generate_" \o lower(d.bases[i])) \in Methods
    \/ lower(d.bases[i]) \in DOMAIN FieldMap

\* the method the i-th ancestor resolves to
AncestorMethod(d, i) ==
    IF ("generate_" \o lower(d.bases[i])) \in Methods
    THEN "generate_" \o lower(d.bases[i])
    ELSE FieldMap[lower(d.bases[i])]

\* the kind resolves through no own-name handler, no ancestor, no alias
Unrecognized(d) ==
    /\ ~OwnHandler(d)
    /\ \A i \in 1..Len(d.bases) : ~AncestorResolves(d, i)

\* two outcomes are the same value: same type and arguments, or same error
SameResult(a, b) ==
    /\ a.kind = b.kind /\ a.cls = b.cls /\ a.pos = b.pos
    /\ a.args = b.args /\ a.exc = b.exc

\* number of occurrences of pair p in the choice list s
Count(p, s) == Cardinality({i \in 1..Len(s) : s[i] = p})

Raised(out, exc) == out.kind = "raise" /\ out.exc = exc

(***************************************************************************)
(* Properties.                                                              *)
(***************************************************************************)
\* C1: for every descriptor, whatever its kind name and ancestor list, the
\* lenient generate never raises and returns a form field, and the strict
\* generate raises NotImplementedError for a kind that resolves through no
\* own-name handler, no ancestor handler and no alias.  Stated for the
\* descriptors that expose every attribute.
C1_LenientTotalStrictPartial ==
    (ncalls > 0 /\ Complete(given)) =>
        /\ last.self = Lenient => last.out.kind = "field"
        /\ (last.self = Strict /\ Unrecognized(given)) =>
                Raised(last.out, "NotImplementedError")

\* C2: when the descriptor's own kind has no handler and it has several
\* ancestors, strict generate returns the form field of the handler of the
\* first ancestor (in declaration order) that resolves by name or by alias,
\* wherever that ancestor stands in the list.  Stated for the cases where
\* that handler itself returns a form field.
C2_FirstResolvingAncestor ==
    (/\ ncalls > 0 /\ last.self = Strict
     /\ ~OwnHandler(given) /\ Len(given.bases) > 1
     /\ \E i \in 1..Len(given.bases) : AncestorResolves(given, i)) =>
        LET i == CHOOSE j \in 1..Len(given.bases) :
                    /\ AncestorResolves(given, j)
                    /\ \A k \in 1..(j - 1) : ~AncestorResolves(given, k)
            want == call_method(AncestorMethod(given, i), Strict, given,
                                kwargs, BlankChoice)
        IN  want.kind = "field" => SameResult(last.out, want)

\* C3: a string, integer or boolean descriptor whose choices are non-empty
\* yields a TypedChoiceField under every combination of regex, max length,
\* required and default.
C3_ChoicesYieldTypedChoiceField ==
    (/\ ncalls > 0 /\ Complete(given)
     /\ given.cls \in {"StringField", "IntField", "BooleanField"}
     /\ Len(given.choices) > 0) =>
        last.out.kind = "field" /\ last.out.cls = "TypedChoiceField"

\* C5: every list descriptor yields a MultipleChoiceField when its element
\* has choices, else a DocumentMultipleChoiceField bound to the referenced
\* collection's manager when the element is a reference, otherwise a
\* ListField; no list descriptor makes generate return no form field.
C5_ListThreeWay ==
    (ncalls > 0 /\ given.cls = "ListField" /\ Complete(given)) =>
        LET elem == given.field[1]
        IN  /\ last.out.kind # "none"
            /\ last.out.kind = "field" =>
                    IF Len(elem.choices) > 0
                    THEN last.out.cls = "MultipleChoiceField"
                    ELSE IF IsInstance(elem, "ReferenceField")
                    THEN /\ last.out.cls = "DocumentMultipleChoiceField"
                         /\ last.out.pos = objects(elem.document_type)
                    ELSE last.out.cls = "ListField"

\* C9: when a handler resolves through the descriptor's own kind name or
\* through an ancestor's name and fails reading a descriptor attribute, the
\* AttributeError reaches the caller unchanged under both variants.
C9_AttributeErrorPropagates ==
    ncalls > 0 =>
        LET viaOwn == OwnHandler(given)
            viaBase == /\ ~viaOwn /\ Len(given.bases) > 0
                       /\ ("generate_" \o lower(given.bases[1])) \in Methods
            method == IF viaOwn THEN "generate_" \o lower(given.cls)
                      ELSE "generate_" \o lower(given.bases[1])
        IN  (/\ viaOwn \/ viaBase
             /\ Raised(call_method(method, last.self, given, kwargs,
                                   BlankChoice), "AttributeError")) =>
                Raised(last.out, "AttributeError")

\* C10: a map descriptor, or a list descriptor taking the wrap branch, is
\* wrapped around the form-field type the same variant's generate returns
\* for its element; an element the strict variant does not support makes
\* the outer call fail the same way; the wrapped type is never NoneType.
C10_WrapsElementFormField ==
    (/\ ncalls > 0 /\ Complete(given)
     /\ given.cls \in {"MapField", "ListField"}
     /\ given.cls = "ListField" =>
            LET e == given.field[1]
            IN  /\ Len(e.choices) = 0
                /\ ~IsInstance(e, "ReferenceField")
                /\ ~IsInstance(e, "EmbeddedDocumentField")) =>
        LET inner == generate(last.self, given.field[1], NoArgs, BlankChoice)
        IN  /\ inner.kind = "raise" => Raised(last.out, inner.exc)
            /\ inner.kind # "raise" =>
                    /\ last.out.kind = "field"
                    /\ last.out.cls = given.cls
                    /\ last.out.pos = inner.cls
            /\ last.out.kind = "field" => last.out.pos # "NoneType"

\* C4: whenever generate returns a form field, every override key the
\* caller passed is a constructor argument with the caller's value, and the
\* other constructor arguments are the defaults computed from the
\* descriptor (those of the same call without overrides).
C4_OverridesWin ==
    (ncalls > 0 /\ last.out.kind = "field") =>
        LET computed == generate(last.self, given, NoArgs, BlankChoice).args
            args == last.out.args
        IN  /\ \A k \in DOMAIN kwargs :
                    k \in DOMAIN args /\ args[k] = kwargs[k]
            /\ DOMAIN args = (DOMAIN computed) \cup (DOMAIN kwargs)
            /\ \A k \in (DOMAIN computed) \ (DOMAIN kwargs) :
                    args[k] = computed[k]

\* a handler computed the label "Title" from the descriptor and the caller
\* passed another label, which the returned form field carries, next to a
\* computed help text the caller did not override
C4_Witness ==
    /\ ncalls > 0 /\ last.out.kind = "field"
    /\ last.out.cls = "MongoCharField"
    /\ given.verbose_name = "Title" /\ given.help_text = "some Help"
    /\ "label" \in DOMAIN kwargs
    /\ last.out.args["label"] = "Custom"
    /\ last.out.args["help_text"] = "Some help"

\* C6: a string descriptor (a StringField, or a kind without a handler of
\* its own whose first ancestor is StringField) with non-empty choices and
\* no regex yields a TypedChoiceField whose options are the blank pair
\* ("", "---------") followed by the descriptor's pairs in their order and
\* number, and whose empty value is None when the descriptor is not
\* required (for calls that do not override the options or the empty value).
C6_BlankThenChoices ==
    (/\ ncalls > 0 /\ Complete(given)
     /\ \/ given.cls = "StringField"
        \/ ~OwnHandler(given) /\ given.bases[1] = "StringField"
     /\ Len(given.choices) > 0 /\ ~Truthy(given.regex)
     /\ "choices" \notin DOMAIN kwargs
     /\ "empty_value" \notin DOMAIN kwargs) =>
        /\ last.out.kind = "field"
        /\ last.out.cls = "TypedChoiceField"
        /\ last.out.args["choices"] = << <<"", "---------">> >> \o given.choices
        /\ Len(last.out.args["choices"]) = 1 + Len(given.choices)
        /\ ~Truthy(given.required) =>
                /\ "empty_value" \in DOMAIN last.out.args
                /\ last.out.args["empty_value"] = None

\* the example of the specification: choices [("a","A"),("b","B")], not
\* required
C6_Witness ==
    /\ ncalls > 0
    /\ given.cls = "StringField" /\ given.regex = None
    /\ given.choices = << <<"a", "A">>, <<"b", "B">> >>
    /\ given.required = "False"
    /\ kwargs = NoArgs
    /\ last.out.cls = "TypedChoiceField"
    /\ last.out.args["choices"] =
            << <<"", "---------">>, <<"a", "A">>, <<"b", "B">> >>
    /\ last.out.args["empty_value"] = None

FrameAndRepeat ==
    /\ field = given
    /\ BLANK_CHOICE_DASH = BlankChoice
    /\ field_map = FieldMap
    /\ last.self = first.self => SameResult(last.out, first.out)

\* the latest call built the options of a coercing choice field
BuiltChoices ==
    /\ ncalls > 0 /\ last.out.kind = "field"
    /\ last.out.cls = "TypedChoiceField"
    /\ "choices" \notin DOMAIN kwargs

\* C8 as stated: after any sequence of generate calls the descriptor, the
\* blank-choice list and the alias table are unchanged, an equal call
\* returns an equal form field, and the blank pair occurs exactly once in
\* every generated choice list.
C8_BlankExactlyOnce ==
    /\ FrameAndRepeat
    /\ BuiltChoices =>
            Count(<<"", "---------">>, last.out.args["choices"]) = 1

\* C8 as amended: after any sequence of generate calls the descriptor, the
\* blank-choice list and the alias table are unchanged, an equal call
\* returns an equal form field, and every choice list get_field_choices
\* builds holds the blank pair exactly once more than the descriptor's own
\* choices do.
C8_BlankPrependedOnce ==
    /\ FrameAndRepeat
    /\ BuiltChoices =>
            Count(<<"", "---------">>, last.out.args["choices"]) =
                1 + Count(<<"", "---------">>, given.choices)

\* the same generator was called twice on a descriptor with choices and
\* built the same options both times
C8_Witness ==
    /\ ncalls = 2 /\ last.self = first.self
    /\ BuiltChoices
    /\ Len(given.choices) = 2
    /\ first.out.args["choices"] = last.out.args["choices"]

=============================================================================
